---- MODULE Spec2Model ----
(***************************************************************************)
(* Model of the pricing-stack assembly layer of options_pricing_v2:        *)
(* the expiry-schedule generator of MarketEnvironment, the process-wide    *)
(* valuation date, ModelFactory / EngineFactory and OptionInstrument.      *)
(*                                                                         *)
(* Dates are QuantLib serial numbers (1 = 1900-01-01 in the library's      *)
(* Excel-compatible numbering), so that weekday(), month(), year() and     *)
(* date arithmetic are computed the way the library computes them.         *)
(* A calendar is the set of its week-day holidays; Saturdays and Sundays   *)
(* are non-business days in every calendar the resolver can return.        *)
(***************************************************************************)
EXTENDS Integers, Sequences, FiniteSets, TLC

(***************************************************************************)
(* Bounds of the model.                                                    *)
(***************************************************************************)
\* pricing dates range over PricingSpan + 1 consecutive days
PricingSpan == 32
\* holiday candidates are the week days of the first HolidaySpan + 1 days
HolidaySpan == 22
\* a calendar has at most MaxHolidays holidays among the candidates
MaxHolidays == 2
\* at most MaxEnvs MarketEnvironment objects are constructed in a run
MaxEnvs == 2
\* _get_weekly_expiries is called with n_weeks in 0 .. MaxWeeks
MaxWeeks == 5
\* _get_third_friday_expiries is called with n_months in 0 .. MaxMonths
MaxMonths == 13
\* the calendars of those calls have at most MaxMethodHolidays holidays
MaxMethodHolidays == 1
\* a traced while loop is followed for at most MaxDaySteps single-day steps
MaxDaySteps == 8

(***************************************************************************)
(* The date service (QuantLib Date / Calendar), as used by the generator.  *)
(***************************************************************************)
\* weekday numbering of the date service: Sunday = 1 ... Saturday = 7
Friday == 6

weekday(d) == IF d % 7 = 0 THEN 7 ELSE d % 7

IsLeap(y) == (y % 4 = 0 /\ y % 100 # 0) \/ y % 400 = 0 \/ y = 1900

\* serial number of 31 December of year y - 1 (valid for 1901..2100)
YearOffset(y) == 365 * (y - 1900) + ((y - 1900 + 3) \div 4)

\* days of the year that precede month m (m = 13: length of the year)
MonthOffset(m, leap) ==
    LET normal == <<0, 31, 59, 90, 120, 151, 181, 212, 243, 273, 304, 334, 365>>
    IN  normal[m] + (IF leap /\ m > 2 THEN 1 ELSE 0)

\* ql.Date(day, month, year)
MakeDate(day, m, y) == day + MonthOffset(m, IsLeap(y)) + YearOffset(y)

year(d) ==
    CHOOSE y \in (1900 + (d \div 366)) .. (1900 + (d \div 365)) :
        YearOffset(y) < d /\ d <= YearOffset(y + 1)

month(d) ==
    LET y == year(d)
        doy == d - YearOffset(y)
    IN  CHOOSE m \in 1..12 :
            /\ MonthOffset(m, IsLeap(y)) < doy
            /\ doy <= MonthOffset(m + 1, IsLeap(y))

dayOfMonth(d) == d - YearOffset(year(d)) - MonthOffset(month(d), IsLeap(year(d)))

IsWeekend(d) == weekday(d) \in {1, 7}

\* calendar.isBusinessDay(d); cal is the set of week-day holidays
IsBusinessDay(cal, d) == ~IsWeekend(d) /\ d \notin cal

\* calendar.adjust(d, ql.Preceding): the latest business day on or before d
RECURSIVE adjustPreceding(_, _)
adjustPreceding(cal, d) ==
    IF IsBusinessDay(cal, d) THEN d ELSE adjustPreceding(cal, d - 1)

\* while friday.weekday() != 6: friday += ql.Period(1, ql.Days)
RECURSIVE StepToFriday(_)
StepToFriday(d) == IF weekday(d) = Friday THEN d ELSE StepToFriday(d + 1)

(***************************************************************************)
(* MarketEnvironment: the expiry-schedule generator.                       *)
(***************************************************************************)
\* default n_weeks of _get_weekly_expiries and _generate_expiries
DefaultWeeklies == 4
\* default n_months of _get_third_friday_expiries and _generate_expiries
DefaultMonthlies == 13
\* the monthly ladder keeps this many near months plus the last one
NearMonths == 6

\* variant: the offset computed as if Friday were weekday 5
FirstFridayAnchorFive(d) == d + ((5 - weekday(d)) % 7)

\* the unadjusted first weekly anchor
FirstFridayAnchor(d) == d + ((6 - weekday(d)) % 7)

\* the first weekly expiry: the anchor rolled to the preceding business day
FirstWeekly(d, cal) == adjustPreceding(cal, FirstFridayAnchor(d))

\* variant: the loop body forgets the roll to the preceding business day
NextWeeklyUnrolled(friday, cal) == StepToFriday(friday + 7)

\* body of the weekly loop: one more week, step to Friday, roll
NextWeekly(friday, cal) == adjustPreceding(cal, StepToFriday(friday + 7))

RECURSIVE WeeklyLoop(_, _, _)
WeeklyLoop(expiries, cal, k) ==
    IF k = 0 THEN expiries
    ELSE WeeklyLoop(Append(expiries, NextWeekly(expiries[Len(expiries)], cal)),
                    cal, k - 1)

\* variant: the first anchor is not appended before the loop
get_weekly_expiries_NoAnchor(d, cal, n_weeks) ==
    Tail(WeeklyLoop(<<FirstWeekly(d, cal)>>, cal, n_weeks))

get_weekly_expiries(d, cal, n_weeks) ==
    WeeklyLoop(<<FirstWeekly(d, cal)>>, cal, n_weeks)

\* variant: the year of the target month is never advanced
FirstDayOfOffsetSameYear(d, i) ==
    LET month_offset == month(d) + i
        mr == (month_offset - 1) % 12
    IN  MakeDate(1, mr + 1, year(d))

\* first_day of the i-th iteration of the monthly loop: divmod on the month
\* offset, then ql.Date(1, month, year)
FirstDayOfOffset(d, i) ==
    LET month_offset == month(d) + i
        yq == (month_offset - 1) \div 12
        mr == (month_offset - 1) % 12
    IN  MakeDate(1, mr + 1, year(d) + yq)

\* the i-th iteration of the monthly loop (i = 0 .. n_months - 1)
ThirdFridayOfOffset(d, cal, i) ==
    adjustPreceding(cal, StepToFriday(FirstDayOfOffset(d, i) + 14))

MonthlyLoop(d, cal, n_months) ==
    [i \in 1..n_months |-> ThirdFridayOfOffset(d, cal, i - 1)]

\* if d > expiries[0]: expiries.pop(0)
DropFirst(d, expiries) ==
    IF d > expiries[1] THEN SubSeq(expiries, 2, Len(expiries)) ELSE expiries

\* variant: the ladder is truncated from 6 entries on
TruncateLadderAtSix(expiries) ==
    IF Len(expiries) >= NearMonths
    THEN Append(SubSeq(expiries, 1, NearMonths), expiries[Len(expiries)])
    ELSE expiries

\* if len(expiries) > 6: expiries = expiries[:6] + [expiries[-1]]
TruncateLadder(expiries) ==
    IF Len(expiries) > NearMonths
    THEN Append(SubSeq(expiries, 1, NearMonths), expiries[Len(expiries)])
    ELSE expiries

get_third_friday_expiries(d, cal, n_months) ==
    TruncateLadder(DropFirst(d, MonthlyLoop(d, cal, n_months)))

\* set(list(expiries))
ToSet(s) == {s[i] : i \in DOMAIN s}

\* sorted(...) of a set of dates: ascending by serial number
RECURSIVE SortedSeq(_)
SortedSeq(S) ==
    IF S = {} THEN <<>>
    ELSE LET m == CHOOSE x \in S : \A y \in S : x <= y
         IN  <<m>> \o SortedSeq(S \ {m})

\* insertion of x into an ascending sequence, duplicates kept
RECURSIVE InsertSorted(_, _)
InsertSorted(x, s) ==
    IF s = <<>> THEN <<x>>
    ELSE IF x <= Head(s) THEN <<x>> \o s
    ELSE <<Head(s)>> \o InsertSorted(x, Tail(s))

\* sorted(list(expiries)): the merge without the set() conversion
RECURSIVE SortedKeepingDuplicates(_)
SortedKeepingDuplicates(s) ==
    IF s = <<>> THEN <<>>
    ELSE InsertSorted(Head(s), SortedKeepingDuplicates(Tail(s)))

\* sorted(set(list(expiries)))
SortedUnique(s) == SortedSeq(ToSet(s))

generate_expiries(d, cal, n_weeklies, n_monthlies) ==
    SortedUnique(get_weekly_expiries(d, cal, n_weeklies)
                    \o get_third_friday_expiries(d, cal, n_monthlies))

(***************************************************************************)
(* Values shared by the pipeline operations.                               *)
(***************************************************************************)
\* Python's None
None == [tag |-> "None"]

\* an exception propagating out of a call
Error(type, msg) == [tag |-> "Error", type |-> type, msg |-> msg]

Returned(v) == [status |-> "returned", value |-> v]
Raised(e) == [status |-> "raised", value |-> e]

(***************************************************************************)
(* ModelFactory and the model classes.                                     *)
(***************************************************************************)
HestonParamNames == {"v0", "kappa", "theta", "sigma", "rho"}

\* a HestonParams object carrying the attributes in present
HestonParams(present) == [tag |-> "HestonParams", present |-> present]

\* BlackScholesModel.__init__ stores its arguments and validates nothing
BlackScholesModel(spot, dividend_curve, risk_free_curve, vol_surface) ==
    [tag |-> "BlackScholesModel", spot |-> spot,
     dividend_curve |-> dividend_curve, risk_free_curve |-> risk_free_curve,
     vol_surface |-> vol_surface]

\* HestonModel.__init__ stores its arguments and validates nothing
HestonModel(spot, risk_free_curve, dividend_curve, heston_params) ==
    [tag |-> "HestonModel", spot |-> spot,
     risk_free_curve |-> risk_free_curve, dividend_curve |-> dividend_curve,
     params |-> heston_params]

\* variant: the else branch returns nothing instead of raising
UnknownModelReturnsNone(model_type) == Returned(None)

\* else: raise ValueError(f"Unknown model type: {model_type}")
UnknownModelRaise(model_type) ==
    Raised(Error("ValueError", "Unknown model type"))

\* variant: both constructors are called with the curves in the same order
create_modelSameOrder(model_type, spot, dividend_curve, risk_free_curve, vol_surface, heston_params) ==
    IF model_type = "bsm"
    THEN Returned(BlackScholesModel(spot, dividend_curve, risk_free_curve,
                                    vol_surface))
    ELSE IF model_type = "heston"
    THEN Returned(HestonModel(spot, dividend_curve, risk_free_curve,
                              heston_params))
    ELSE UnknownModelRaise(model_type)

\* ModelFactory.create_model
create_model(model_type, spot, dividend_curve, risk_free_curve, vol_surface, heston_params) ==
    IF model_type = "bsm"
    THEN Returned(BlackScholesModel(spot, dividend_curve, risk_free_curve,
                                    vol_surface))
    ELSE IF model_type = "heston"
    THEN Returned(HestonModel(spot, risk_free_curve, dividend_curve,
                              heston_params))
    ELSE UnknownModelRaise(model_type)

\* isinstance(self.vol_surface, ql.BlackVolTermStructure)
IsBlackVolTermStructure(v) == v.tag = "BlackConstantVol"

\* variant: build() does not check the type of the surface
BlackScholesBuildUnchecked(model) ==
    Returned([tag |-> "BlackScholesMertonProcess", spot |-> model.spot,
              dividend |-> model.dividend_curve,
              risk_free |-> model.risk_free_curve,
              vol |-> model.vol_surface])

\* BlackScholesModel.build()
BlackScholesBuild(model) ==
    IF ~IsBlackVolTermStructure(model.vol_surface)
    THEN Raised(Error("TypeError",
                      "vol_surface must be a QuantLib BlackVolTermStructure"))
    ELSE Returned([tag |-> "BlackScholesMertonProcess", spot |-> model.spot,
                   dividend |-> model.dividend_curve,
                   risk_free |-> model.risk_free_curve,
                   vol |-> model.vol_surface])

\* variant: build() passes on whatever parameters it finds
HestonBuildLenient(model) ==
    Returned([tag |-> "HestonModel_ql", spot |-> model.spot,
              risk_free |-> model.risk_free_curve,
              dividend |-> model.dividend_curve, params |-> model.params])

\* HestonModel.build(): reading self.params.v0 ... self.params.rho fails on
\* None and on an object that lacks one of the attributes
HestonBuild(model) ==
    IF model.params = None \/ ~(HestonParamNames \subseteq model.params.present)
    THEN Raised(Error("AttributeError", "missing Heston parameter"))
    ELSE Returned([tag |-> "HestonModel_ql", spot |-> model.spot,
                   risk_free |-> model.risk_free_curve,
                   dividend |-> model.dividend_curve, params |-> model.params])

(***************************************************************************)
(* EngineFactory and the engine wrappers.                                  *)
(***************************************************************************)
\* BinomialEngine(process, steps).build()
BinomialEngineBuild(process, steps) ==
    [tag |-> "BinomialVanillaEngine", process |-> process, steps |-> steps]

\* AnalyticEuropeanEngine(process).build()
AnalyticEuropeanEngineBuild(process) ==
    [tag |-> "AnalyticEuropeanEngine", process |-> process]

\* HestonEngine(model).build()
HestonEngineBuild(qlmodel) ==
    [tag |-> "AnalyticHestonEngine", process |-> qlmodel]

PairingError(msg) == Raised(Error("ValueError", msg))

\* variant: the else branch falls back to the analytic engine
BlackScholesBranchFallback(model, engine_type, steps) ==
    LET p == BlackScholesBuild(model)
    IN  IF p.status = "raised" THEN p
        ELSE IF engine_type = "binomial"
        THEN Returned(BinomialEngineBuild(p.value, steps))
        ELSE Returned(AnalyticEuropeanEngineBuild(p.value))

\* the branch of create_engine taken for a BlackScholesModel
BlackScholesBranch(model, engine_type, steps) ==
    IF engine_type = "binomial"
    THEN LET p == BlackScholesBuild(model)
         IN  IF p.status = "raised" THEN p
             ELSE Returned(BinomialEngineBuild(p.value, steps))
    ELSE IF engine_type = "analytic"
    THEN LET p == BlackScholesBuild(model)
         IN  IF p.status = "raised" THEN p
             ELSE Returned(AnalyticEuropeanEngineBuild(p.value))
    ELSE PairingError("Unknown engine type for Black-Scholes")

\* the branch of create_engine taken for a HestonModel
HestonBranch(model, engine_type) ==
    IF engine_type = "heston"
    THEN LET m == HestonBuild(model)
         IN  IF m.status = "raised" THEN m
             ELSE Returned(HestonEngineBuild(m.value))
    ELSE PairingError("Unknown engine type for Heston model")

create_engine(model, engine_type, steps) ==
    IF model.tag = "BlackScholesModel"
    THEN BlackScholesBranch(model, engine_type, steps)
    ELSE IF model.tag = "HestonModel"
    THEN HestonBranch(model, engine_type)
    ELSE PairingError("Engine not supported for this model type.")

(***************************************************************************)
(* OptionInstrument (pricing_engine/instruments/option.py and the earlier  *)
(* draft src/instruments/option.py; impl tells the two apart).             *)
(***************************************************************************)
\* OptionInstrument.__init__ stores its arguments and validates nothing
OptionInstrument(impl, option_type, strike, expiry, style, engine, bid_ask_spread) ==
    [tag |-> "OptionInstrument", impl |-> impl, option_type |-> option_type,
     strike |-> strike, expiry |-> expiry, style |-> style, engine |-> engine,
     bid_ask_spread |-> bid_ask_spread]

PlainVanillaPayoff(type, strike) ==
    [tag |-> "PlainVanillaPayoff", type |-> type, strike |-> strike]

\* the 'put' branch: ql.Option.Put in pricing_engine, ql.Option.put (an
\* attribute the library does not have) in the draft
PutBranch(opt) ==
    IF opt.impl = "pricing_engine"
    THEN Returned(PlainVanillaPayoff("Put", opt.strike))
    ELSE Raised(Error("AttributeError", "Option has no attribute put"))

\* OptionInstrument._payoff / OptionInstrument.payoff
payoff(opt) ==
    IF opt.option_type = "call"
    THEN Returned(PlainVanillaPayoff("Call", opt.strike))
    ELSE IF opt.option_type = "put"
    THEN PutBranch(opt)
    ELSE Raised(Error("ValueError", "Unknown option type"))

\* variant: today is the system date, not the process-wide setting
SystemDateRead(stored, clock) == clock

\* ql.Settings.instance().evaluationDate read: the stored date, or the
\* system date while none has been set (the null date, serial 0)
EvaluationDateRead(stored, clock) == IF stored = 0 THEN clock ELSE stored

\* the 'american' branch: today is read from the process-wide setting
AmericanBranch(opt, today) ==
    Returned([tag |-> "AmericanExercise", earliest |-> today,
              latest |-> opt.expiry])

\* variant: the European exercise is anchored at today
EuropeanBranchToday(opt, today) ==
    Returned([tag |-> "EuropeanExercise", date |-> today])

\* the 'european' branch
EuropeanBranch(opt, today) ==
    Returned([tag |-> "EuropeanExercise", date |-> opt.expiry])

\* OptionInstrument._exercise / OptionInstrument.exercise
exercise(opt, today) ==
    IF opt.style = "european"
    THEN EuropeanBranch(opt, today)
    ELSE IF opt.style = "american"
    THEN AmericanBranch(opt, today)
    ELSE Raised(Error("ValueError", "Unknown option style"))

\* variant: the bid is floored at zero
QuoteClamped(mid, bid_ask_spread) ==
    IF bid_ask_spread > 0
    THEN [mid |-> 2 * mid,
          bid |-> IF 2 * mid - bid_ask_spread < 0 THEN 0
                  ELSE 2 * mid - bid_ask_spread,
          ask |-> 2 * mid + bid_ask_spread]
    ELSE [mid |-> 2 * mid, bid |-> 2 * mid, ask |-> 2 * mid]

\* Amounts handed to the engine interface (mid, spread) are counted in
\* ticks; the amounts of the returned dictionary are counted in half ticks,
\* so that spread / 2 is exact as it is in floating point.
Quote(mid, bid_ask_spread) ==
    IF bid_ask_spread > 0
    THEN [mid |-> 2 * mid,
          bid |-> 2 * mid - bid_ask_spread,
          ask |-> 2 * mid + bid_ask_spread]
    ELSE [mid |-> 2 * mid, bid |-> 2 * mid, ask |-> 2 * mid]

\* variant: the engine check is absent
EngineNeverMissing(opt) == FALSE

\* if not self.engine
EngineMissing(opt) == opt.engine = None

\* what price() did: its outcome, the payoff and exercise it built, whether
\* option.NPV() was called and what the engine answered
PriceOutcome(res, pay, ex, asked, npv) ==
    [status |-> res.status, value |-> res.value, payoff |-> pay,
     exercise |-> ex, npv_asked |-> asked, npv |-> npv]

\* variant: the engine check precedes the construction of the option
priceEngineFirst(opt, today, answer) ==
    LET pay == payoff(opt)
        ex == exercise(opt, today)
    IN  IF EngineMissing(opt)
        THEN PriceOutcome(Raised(Error("ValueError", "No pricing engine set")),
                          None, None, FALSE, None)
        ELSE IF pay.status = "raised"
        THEN PriceOutcome(pay, None, None, FALSE, None)
        ELSE IF ex.status = "raised"
        THEN PriceOutcome(ex, pay.value, None, FALSE, None)
        ELSE IF answer.tag = "Error"
        THEN PriceOutcome(Raised(answer), pay.value, ex.value, TRUE, None)
        ELSE PriceOutcome(Returned(Quote(answer.npv, opt.bid_ask_spread)),
                          pay.value, ex.value, TRUE, answer)

\* OptionInstrument.price(); today is the process-wide valuation date at the
\* time of the call, answer is what the engine does when asked for the NPV
price(opt, today, answer) ==
    LET pay == payoff(opt)
        ex == exercise(opt, today)
    IN  IF pay.status = "raised"
        THEN PriceOutcome(pay, None, None, FALSE, None)
        ELSE IF ex.status = "raised"
        THEN PriceOutcome(ex, pay.value, None, FALSE, None)
        ELSE IF EngineMissing(opt)
        THEN PriceOutcome(Raised(Error("ValueError", "No pricing engine set")),
                          pay.value, ex.value, FALSE, None)
        ELSE IF answer.tag = "Error"
        THEN PriceOutcome(Raised(answer), pay.value, ex.value, TRUE, None)
        ELSE PriceOutcome(Returned(Quote(answer.npv, opt.bid_ask_spread)),
                          pay.value, ex.value, TRUE, answer)

(***************************************************************************)
(* MarketEnvironment.__init__ (both implementations).                      *)
(***************************************************************************)
\* self.expiries = self._generate_expiries(); the draft has no schedule
EnvExpiries(impl, d, cal) ==
    IF impl = "pricing_engine"
    THEN generate_expiries(d, cal, DefaultWeeklies, DefaultMonthlies)
    ELSE <<>>

MarketEnvironment(impl, d, cal) ==
    [tag |-> "MarketEnvironment", impl |-> impl, pricing_date |-> d,
     calendar |-> cal, expiries |-> EnvExpiries(impl, d, cal)]

\* variant: the valuation date is set by the first environment only
EvaluationDateSetOnce(stored, pricing_date) ==
    IF stored = 0 THEN pricing_date ELSE stored

\* ql.Settings.instance().evaluationDate = self.pricing_date
EvaluationDateAfterInit(stored, pricing_date) == pricing_date

(***************************************************************************)
(* Conventions: calendar and day-count resolution.                         *)
(***************************************************************************)
\* the keys of calendar_map
SupportedCalendars ==
    {"UnitedStates/NYSE", "UnitedStates/GovernmentBond", "TARGET", "UK"}

\* the week-day holidays of a supported calendar from mid December 2023 to
\* mid January 2024 (Christmas, Boxing Day, New Year, Martin Luther King)
CalendarHolidays(name) ==
    IF name \in {"UnitedStates/NYSE", "UnitedStates/GovernmentBond"}
    THEN {MakeDate(25, 12, 2023), MakeDate(1, 1, 2024), MakeDate(15, 1, 2024)}
    ELSE {MakeDate(25, 12, 2023), MakeDate(26, 12, 2023), MakeDate(1, 1, 2024)}

\* the object calendar_map[name]() returns
Calendar(name) ==
    [tag |-> "Calendar", name |-> name, holidays |-> CalendarHolidays(name)]

\* variant: an unsupported name falls back to the TARGET calendar
UnsupportedCalendarDefault(name) == Returned(Calendar("TARGET"))

\* except KeyError: raise ValueError(f"Unsupported calendar: {name}")
UnsupportedCalendar(name) == Raised(Error("ValueError", "Unsupported calendar"))

\* Conventions.get_calendar(name)
get_calendar(name) ==
    IF name \in SupportedCalendars
    THEN Returned(Calendar(name))
    ELSE UnsupportedCalendar(name)

\* attributes of the ql module that are day-count classes
QlDayCounters == {"Actual365Fixed", "Actual360"}

\* other attributes of the ql module that can be called without arguments
QlNullaryClasses == {"TARGET", "Date"}

\* attributes of the ql module whose call without arguments is a TypeError
QlOtherAttributes == {"FlatForward"}

\* Conventions.get_day_count(name): getattr(ql, name)(), with only the
\* AttributeError of a missing attribute turned into the ValueError
get_day_count(name) ==
    IF name \in QlDayCounters
    THEN Returned([tag |-> "DayCounter", name |-> name])
    ELSE IF name \in QlNullaryClasses
    THEN Returned([tag |-> "Object", name |-> name])
    ELSE IF name \in QlOtherAttributes
    THEN Raised(Error("TypeError", "missing constructor arguments"))
    ELSE Raised(Error("ValueError", "Unsupported day count convention"))

\* the tuple Conventions.build() returns
ConventionsPair(calendar, dc) ==
    [tag |-> "tuple", calendar |-> calendar, day_count |-> dc]

\* Conventions(calendar_name, day_count).build()
ConventionsBuild(calendar_name, day_count) ==
    LET calendar == get_calendar(calendar_name)
        dc == get_day_count(day_count)
    IN  IF calendar.status = "raised" THEN calendar
        ELSE IF dc.status = "raised" THEN dc
        ELSE Returned(ConventionsPair(calendar.value, dc.value))

(***************************************************************************)
(* VolatilitySurfaceFactory, FlatVolSurface and YieldCurveBuilder.         *)
(***************************************************************************)
\* a surface configuration, a dict or a VolSurfaceConfig (kind), with its
\* type and vol (in percent)
VolConfig(kind, type, vol) ==
    [tag |-> "VolConfig", kind |-> kind, type |-> type, vol |-> vol]

FlatVolSurface(vol) == [tag |-> "FlatVolSurface", vol |-> vol]

\* variant: every type other than 'flat' is reported as not implemented
UnknownSurfaceNotImplemented(surface_type) ==
    Raised(Error("NotImplementedError",
                 "Term structure vol is not implemented yet."))

\* else: raise ValueError(f"Unknown vol surface type: {surface_type}")
UnknownSurfaceType(surface_type) ==
    Raised(Error("ValueError", "Unknown vol surface type"))

\* VolatilitySurfaceFactory.from_config(vol_config)
VolatilitySurfaceFactory_from_config(vol_config) ==
    LET surface_type == vol_config.type
        vol == vol_config.vol
    IN  IF surface_type = "flat"
        THEN Returned(FlatVolSurface(vol))
        ELSE IF surface_type = "term_structure"
        THEN Raised(Error("NotImplementedError",
                          "Term structure vol is not implemented yet."))
        ELSE UnknownSurfaceType(surface_type)

\* the calendar of a term structure built without one
NullCalendar == [tag |-> "Calendar", name |-> "null", holidays |-> {}]

\* a term-structure constructor of the library accepts only a day counter
\* in its day-counter argument
IsDayCounter(dc) == dc.tag = "DayCounter"

\* ql.BlackConstantVol(referenceDate, calendar, volatility, dayCounter)
ql_BlackConstantVol(reference_date, calendar, vol, day_count) ==
    IF ~IsDayCounter(day_count)
    THEN Raised(Error("TypeError", "wrong argument type"))
    ELSE Returned([tag |-> "BlackConstantVol", referenceDate |-> reference_date,
                   calendar |-> calendar, vol |-> vol,
                   dayCounter |-> day_count])

\* FlatVolSurface.build(pricing_date, calendar, day_count)
FlatVolSurfaceBuild(surface, pricing_date, calendar, day_count) ==
    ql_BlackConstantVol(pricing_date, calendar, surface.vol, day_count)

\* ql.FlatForward(referenceDate, forward, dayCounter): no calendar is given
ql_FlatForward(reference_date, rate, day_count) ==
    IF ~IsDayCounter(day_count)
    THEN Raised(Error("TypeError", "wrong argument type"))
    ELSE Returned([tag |-> "FlatForward", referenceDate |-> reference_date,
                   calendar |-> NullCalendar, rate |-> rate,
                   dayCounter |-> day_count])

\* YieldCurveBuilder(curves_config, pricing_date, calendar, day_count)
YieldCurveBuilder(curves_config, pricing_date, calendar, day_count) ==
    [tag |-> "YieldCurveBuilder", curves_config |-> curves_config,
     pricing_date |-> pricing_date, calendar |-> calendar,
     day_count |-> day_count]

\* YieldCurveBuilder.build_risk_free_curve()
build_risk_free_curve(self) ==
    ql_FlatForward(self.pricing_date, self.curves_config.risk_free.rate,
                   self.day_count)

\* YieldCurveBuilder.build_dividend_curve()
build_dividend_curve(self) ==
    ql_FlatForward(self.pricing_date, self.curves_config.dividend.rate,
                   self.day_count)

\* YieldCurveBuilder.build_all()
build_all(self) ==
    LET risk_free_curve == build_risk_free_curve(self)
        dividend_curve == build_dividend_curve(self)
    IN  IF risk_free_curve.status = "raised" THEN risk_free_curve
        ELSE IF dividend_curve.status = "raised" THEN dividend_curve
        ELSE Returned([tag |-> "tuple", risk_free_curve |-> risk_free_curve.value,
                       dividend_curve |-> dividend_curve.value])

(***************************************************************************)
(* MarketEnvironment.from_config.                                          *)
(***************************************************************************)
\* ql.DateParser.parseISO: an ISO date string, given as <<year, month, day>>
parseISO(iso) == MakeDate(iso[3], iso[2], iso[1])

\* Underlying.from_config(cfg)
Underlying_from_config(cfg) ==
    [tag |-> "Underlying", name |-> cfg.name, spot |-> cfg.spot]

\* cls(pricing_date=..., calendar=..., ...): the environment with all its
\* attributes; calendar is the resolved calendar object
ConfiguredEnvironment(pricing_date, calendar, day_count, underlying, vol_surface, risk_free_curve, dividend_curve) ==
    [tag |-> "MarketEnvironment", impl |-> "pricing_engine",
     pricing_date |-> pricing_date, calendar |-> calendar,
     day_count |-> day_count, underlying |-> underlying,
     vol_surface |-> vol_surface, risk_free_curve |-> risk_free_curve,
     dividend_curve |-> dividend_curve,
     expiries |-> EnvExpiries("pricing_engine", pricing_date, calendar.holidays)]

\* from_config after the conventions were resolved: the surface lookup and
\* build, the curves, the constructor
FromConfigBody(cfg, pricing_date, calendar, day_count) ==
    LET underlying == Underlying_from_config(cfg.underlying)
        vol_regime == cfg.market_env.volatility_regime
    IN  IF vol_regime \notin DOMAIN cfg.volatility_surfaces
        THEN Raised(Error("KeyError", "volatility regime"))
        ELSE
        LET surface ==
                VolatilitySurfaceFactory_from_config(
                    cfg.volatility_surfaces[vol_regime])
        IN  IF surface.status = "raised" THEN surface
            ELSE
            LET vol_surface ==
                    FlatVolSurfaceBuild(surface.value, pricing_date, calendar,
                                        day_count)
                curves ==
                    build_all(YieldCurveBuilder(cfg.curves, pricing_date,
                                                calendar, day_count))
            IN  IF vol_surface.status = "raised" THEN vol_surface
                ELSE IF curves.status = "raised" THEN curves
                ELSE Returned(ConfiguredEnvironment(
                         pricing_date, calendar, day_count, underlying,
                         vol_surface.value, curves.value.risk_free_curve,
                         curves.value.dividend_curve))

\* MarketEnvironment.from_config(cfg): what it returns or raises
from_config(cfg) ==
    LET pricing_date == parseISO(cfg.market_env.pricing_date)
        conventions ==
            ConventionsBuild(cfg.market_env.calendar, cfg.market_env.day_count)
    IN  IF conventions.status = "raised" THEN conventions
        ELSE FromConfigBody(cfg, pricing_date, conventions.value.calendar,
                            conventions.value.day_count)

(***************************************************************************)
(* Inputs of the generator specification.                                  *)
(***************************************************************************)
FirstPricingDate == MakeDate(14, 12, 2023)

PricingDates == FirstPricingDate .. (FirstPricingDate + PricingSpan)

HolidayCandidates ==
    {d \in FirstPricingDate .. (FirstPricingDate + HolidaySpan) : ~IsWeekend(d)}

RECURSIVE HolidaySets(_)
HolidaySets(k) ==
    IF k = 0 THEN {{}}
    ELSE LET smaller == HolidaySets(k - 1)
         IN  smaller \cup {c \cup {h} : c \in smaller, h \in HolidayCandidates}

\* every calendar with at most MaxHolidays holidays among the candidates
Calendars == HolidaySets(MaxHolidays)

VARIABLES
    g_pc,           \* position inside _generate_expiries
    g_date,         \* self.pricing_date of the environment under construction
    g_cal,          \* self.calendar (its week-day holidays)
    g_weeklies,     \* result of _get_weekly_expiries
    g_monthlies,    \* result of _get_third_friday_expiries
    g_expiries,     \* the local list expiries / the returned schedule
    g_frame         \* locals of a list builder that is traced statement by
                    \* statement: friday / third_friday, the loop index i,
                    \* and the single-day steps its while loop has taken

VARIABLES
    package,        \* the implementation the process runs: the pricing_engine
                    \* package or the earlier draft under src/
    evaluationDate, \* ql.Settings.instance().evaluationDate (0: not set)
    envs,           \* the MarketEnvironment objects built so far, in order
    option,         \* the caller's OptionInstrument, None before it is built
    call,           \* the last pipeline call: operation, arguments, outcome
    iface           \* the PricingInterface of a request: its configuration,
                    \* how far __init__ got, its attributes, its last price()

gvars == <<g_pc, g_date, g_cal, g_weeklies, g_monthlies, g_expiries, g_frame>>

pvars == <<package, evaluationDate, envs, option, call, iface>>

vars == <<gvars, pvars>>

(***************************************************************************)
(* Inputs of the pipeline specification.                                   *)
(***************************************************************************)
Impls == {"pricing_engine", "src"}

\* the environments a client builds: (pricing date, calendar)
EnvInputs ==
    {<<MakeDate(15, 12, 2023), {MakeDate(15, 12, 2023)}>>,
     <<MakeDate(2, 1, 2024), {}>>}

\* the system date seen while no valuation date has been set
ClockDates == {MakeDate(1, 12, 2023)}

ModelKinds == {"bsm", "heston", "sabr"}

BlackConstantVol == [tag |-> "BlackConstantVol"]

VolSurfaceInputs == {BlackConstantVol, None, [tag |-> "FlatVolSurface"]}

HestonParamInputs ==
    {HestonParams(HestonParamNames), HestonParams(HestonParamNames \ {"rho"}),
     None}

Spots == {100}
DividendCurves == {[tag |-> "FlatForward", rate |-> "dividend"]}
RiskFreeCurves == {[tag |-> "FlatForward", rate |-> "risk_free"]}

ModelResults ==
    {create_model(k, s, dc, rc, v, hp) :
        k \in ModelKinds, s \in Spots, dc \in DividendCurves,
        rc \in RiskFreeCurves, v \in VolSurfaceInputs, hp \in HestonParamInputs}

\* what a caller can hand to create_engine: any model the factory returns,
\* or an object that is not a model
ModelArgs ==
    {r.value : r \in {x \in ModelResults : x.status = "returned"}}
        \cup {[tag |-> "Underlying"]}

EngineKinds == {"analytic", "binomial", "heston", "montecarlo"}

StepsInputs == {50, 100}

EngineResults ==
    {create_engine(m, k, n) : m \in ModelArgs, k \in EngineKinds, n \in StepsInputs}

\* what a caller can attach to an instrument: any engine the factory
\* returns, or nothing
EngineArgs ==
    {r.value : r \in {x \in EngineResults : x.status = "returned"}} \cup {None}

\* the engines attached to instruments: the analytic engine of the
\* Black-Scholes model over a Black surface, or nothing
OptionEngines ==
    {create_engine(BlackScholesModel(100, CHOOSE c \in DividendCurves : TRUE,
                                     CHOOSE c \in RiskFreeCurves : TRUE,
                                     BlackConstantVol),
                   "analytic", 100).value,
     None}

OptionTypes == {"call", "put", "straddle"}
Styles == {"european", "american", "bermudan"}
Strikes == {100}
Expiries == {MakeDate(21, 6, 2024), MakeDate(20, 12, 2024)}
\* spreads in ticks: 0.10, none, and a negative one
Spreads == {10, 0, 0 - 10}

\* what the engine does when asked: a value in ticks (0.03, 5.00), or an
\* error of the calculus library
EngineAnswers ==
    {[tag |-> "NPV", npv |-> 3], [tag |-> "NPV", npv |-> 500],
     Error("RuntimeError", "library error")}

(***************************************************************************)
(* The pipeline.  A client builds environments and prices its instrument   *)
(* at any time; as in PricingInterface.__init__, it creates its models and *)
(* engines before it constructs the instrument they are attached to.       *)
(***************************************************************************)
Call(op, args, res) ==
    [op |-> op, args |-> args, status |-> res.status, value |-> res.value,
     payoff |-> None, exercise |-> None, npv_asked |-> FALSE, npv |-> None]

PriceCall(out) ==
    [op |-> "price", args |-> <<>>, status |-> out.status, value |-> out.value,
     payoff |-> out.payoff, exercise |-> out.exercise,
     npv_asked |-> out.npv_asked, npv |-> out.npv]

Frame(friday, i, steps) == [friday |-> friday, i |-> i, steps |-> steps]

FrameIdle == Frame(0, 0, 0)

\* no _generate_expiries call is being traced
GenIdle ==
    /\ g_pc = "idle"
    /\ g_date = 0
    /\ g_cal = {}
    /\ g_weeklies = <<>>
    /\ g_monthlies = <<>>
    /\ g_expiries = <<>>
    /\ g_frame = FrameIdle

\* a PricingInterface: pc is the position reached ("idle": no request)
Interface(pc, cfg, expiry_date, market_env, model, engine, opt, failed_at, error, result) ==
    [pc |-> pc, cfg |-> cfg, expiry_date |-> expiry_date,
     market_env |-> market_env, model |-> model, engine |-> engine,
     option |-> opt, failed_at |-> failed_at, error |-> error,
     result |-> result]

IfaceIdle == Interface("idle", None, 0, None, None, None, None, "", None, None)

PipelineInit ==
    /\ package \in Impls
    /\ evaluationDate = 0
    /\ envs = <<>>
    /\ option = None
    /\ call = Call("none", <<>>, Returned(None))
    /\ iface = IfaceIdle

Init == PipelineInit /\ GenIdle

\* MarketEnvironment(pricing_date, calendar, ...)
ConstructEnv ==
    /\ Len(envs) < MaxEnvs
    /\ \E inp \in EnvInputs :
        LET env == MarketEnvironment(package, inp[1], inp[2])
        IN  /\ envs' = Append(envs, env)
            /\ evaluationDate' = EvaluationDateAfterInit(evaluationDate, inp[1])
            /\ call' = Call("MarketEnvironment", inp, Returned(env))
    /\ UNCHANGED <<package, option, iface, gvars>>

\* ModelFactory.create_model(...)
CreateModel ==
    /\ option = None
    /\ \E k \in ModelKinds, s \in Spots, dc \in DividendCurves,
          rc \in RiskFreeCurves, v \in VolSurfaceInputs, hp \in HestonParamInputs :
        call' = Call("create_model", <<k, s, dc, rc, v, hp>>,
                     create_model(k, s, dc, rc, v, hp))
    /\ UNCHANGED <<package, evaluationDate, envs, option, iface, gvars>>

\* EngineFactory.create_engine(model, engine_type, steps)
CreateEngine ==
    /\ option = None
    /\ \E m \in ModelArgs, k \in EngineKinds, n \in StepsInputs :
        call' = Call("create_engine", <<m, k, n>>, create_engine(m, k, n))
    /\ UNCHANGED <<package, evaluationDate, envs, option, iface, gvars>>

\* the engine the client has just obtained from create_engine, if any
LastEngine ==
    IF call.op = "create_engine" /\ call.status = "returned"
    THEN {call.value} ELSE {}

\* OptionInstrument(option_type, strike, expiry, style, engine, spread)
ConstructOption ==
    /\ \E t \in OptionTypes, k \in Strikes, e \in Expiries,
          st \in Styles, eng \in OptionEngines \cup LastEngine, sp \in Spreads :
        LET o == OptionInstrument(package, t, k, e, st, eng, sp)
        IN  /\ option' = o
            /\ call' = Call("OptionInstrument", <<t, k, e, st, eng, sp>>,
                            Returned(o))
    /\ UNCHANGED <<package, evaluationDate, envs, iface, gvars>>

\* option.price()
Price ==
    /\ option # None
    /\ \E clock \in ClockDates, answer \in EngineAnswers :
        call' = PriceCall(price(option,
                                EvaluationDateRead(evaluationDate, clock),
                                answer))
    /\ UNCHANGED <<package, evaluationDate, envs, option, iface, gvars>>

\* variant: the generator starts from the process-wide valuation date
ValuationDateAsPricingDate(pricing_date, stored) ==
    IF stored = 0 THEN pricing_date ELSE stored

\* d = self.pricing_date: the date the two list builders start from
SelfPricingDate(pricing_date, stored) == pricing_date

\* the list a generator call returns
Schedule(dates) == [tag |-> "list", dates |-> dates]

\* env._generate_expiries() on an environment built earlier
GenerateExpiries ==
    /\ package = "pricing_engine"
    /\ \E i \in 1..Len(envs) :
        call' = Call("_generate_expiries", <<i>>,
                     Returned(Schedule(generate_expiries(
                         SelfPricingDate(envs[i].pricing_date, evaluationDate),
                         envs[i].calendar, DefaultWeeklies, DefaultMonthlies))))
    /\ UNCHANGED <<package, evaluationDate, envs, option, iface, gvars>>

Next ==
    \/ ConstructEnv
    \/ CreateModel
    \/ CreateEngine
    \/ ConstructOption
    \/ Price
    \/ GenerateExpiries

Spec == Init /\ [][Next]_vars

\* a call of _generate_expiries on an environment (pricing date, calendar)
InitExpiry ==
    /\ PipelineInit
    /\ package = "pricing_engine"
    /\ g_pc = "start"
    /\ g_date \in PricingDates
    /\ g_cal \in Calendars
    /\ g_weeklies = <<>>
    /\ g_monthlies = <<>>
    /\ g_expiries = <<>>
    /\ g_frame = FrameIdle

\* expiries += self._get_weekly_expiries(n_weeks=n_weeklies)
GenWeekly ==
    /\ g_pc = "start"
    /\ g_weeklies' = get_weekly_expiries(g_date, g_cal, DefaultWeeklies)
    /\ g_expiries' = g_expiries \o g_weeklies'
    /\ g_pc' = "weeklies"
    /\ UNCHANGED <<g_date, g_cal, g_monthlies, g_frame, pvars>>

\* expiries += self._get_third_friday_expiries(n_months=n_monthlies)
GenMonthly ==
    /\ g_pc = "weeklies"
    /\ g_monthlies' = get_third_friday_expiries(g_date, g_cal, DefaultMonthlies)
    /\ g_expiries' = g_expiries \o g_monthlies'
    /\ g_pc' = "monthlies"
    /\ UNCHANGED <<g_date, g_cal, g_weeklies, g_frame, pvars>>

\* return sorted(set(list(expiries)))
GenReturn ==
    /\ g_pc = "monthlies"
    /\ g_expiries' = SortedUnique(g_expiries)
    /\ g_pc' = "done"
    /\ UNCHANGED <<g_date, g_cal, g_weeklies, g_monthlies, g_frame, pvars>>

NextExpiry == GenWeekly \/ GenMonthly \/ GenReturn

ExpirySpec == InitExpiry /\ [][NextExpiry]_vars

(***************************************************************************)
(* Calls of the two list builders with an explicit count, on a freshly     *)
(* constructed environment (pricing date, calendar).                       *)
(***************************************************************************)
WeekCounts == 0 .. MaxWeeks

MonthCounts == 0 .. MaxMonths

MethodCalendars == HolidaySets(MaxMethodHolidays)

InitMethods ==
    /\ PipelineInit
    /\ package = "pricing_engine"
    /\ g_pc = "env"
    /\ g_date \in PricingDates
    /\ g_cal \in MethodCalendars
    /\ g_weeklies = <<>>
    /\ g_monthlies = <<>>
    /\ g_expiries = <<>>
    /\ g_frame = FrameIdle

\* self._get_weekly_expiries(n_weeks)
GetWeeklyExpiries ==
    /\ g_pc = "env"
    /\ \E n_weeks \in WeekCounts :
        /\ g_weeklies' = get_weekly_expiries(g_date, g_cal, n_weeks)
        /\ call' = Call("_get_weekly_expiries", <<n_weeks>>, Returned(None))
    /\ g_pc' = "returned"
    /\ UNCHANGED <<g_date, g_cal, g_monthlies, g_expiries, g_frame>>
    /\ UNCHANGED <<package, evaluationDate, envs, option, iface>>

\* self._get_third_friday_expiries(n_months): the loop over the months
ThirdFridayLoop ==
    /\ g_pc = "env"
    /\ \E n_months \in MonthCounts :
        /\ g_expiries' = MonthlyLoop(g_date, g_cal, n_months)
        /\ call' = Call("_get_third_friday_expiries", <<n_months>>,
                        Returned(None))
    /\ g_pc' = "looped"
    /\ UNCHANGED <<g_date, g_cal, g_weeklies, g_monthlies, g_frame>>
    /\ UNCHANGED <<package, evaluationDate, envs, option, iface>>

\* if d > expiries[0]: expiries.pop(0); expiries[0] of an empty list raises
ThirdFridayDrop ==
    /\ g_pc = "looped"
    /\ IF g_expiries = <<>>
       THEN /\ g_pc' = "raised"
            /\ call' = Call(call.op, call.args,
                            Raised(Error("IndexError",
                                         "list index out of range")))
            /\ UNCHANGED g_expiries
       ELSE /\ g_pc' = "dropped"
            /\ g_expiries' = DropFirst(g_date, g_expiries)
            /\ UNCHANGED call
    /\ UNCHANGED <<g_date, g_cal, g_weeklies, g_monthlies, g_frame>>
    /\ UNCHANGED <<package, evaluationDate, envs, option, iface>>

\* the truncation of the ladder and the return
ThirdFridayTruncate ==
    /\ g_pc = "dropped"
    /\ g_monthlies' = TruncateLadder(g_expiries)
    /\ g_pc' = "returned"
    /\ UNCHANGED <<g_date, g_cal, g_weeklies, g_expiries, g_frame, pvars>>

NextMethods ==
    GetWeeklyExpiries \/ ThirdFridayLoop \/ ThirdFridayDrop \/ ThirdFridayTruncate

MethodSpec == InitMethods /\ [][NextMethods]_vars

(***************************************************************************)
(* The two list builders traced statement by statement: every iteration of *)
(* their for loops and every single-day step of their while loops.         *)
(***************************************************************************)
\* the week from Monday 2023-12-25 to Friday 2023-12-29, closed as a whole
WeekOff == MakeDate(25, 12, 2023) .. MakeDate(29, 12, 2023)

LoopCalendars ==
    {{},
     {MakeDate(22, 12, 2023), MakeDate(19, 1, 2024)},
     {MakeDate(4, 1, 2024), MakeDate(5, 1, 2024)},
     WeekOff}

InitLoops ==
    /\ PipelineInit
    /\ package = "pricing_engine"
    /\ g_pc = "env"
    /\ g_date \in PricingDates
    /\ g_cal \in LoopCalendars
    /\ g_weeklies = <<>>
    /\ g_monthlies = <<>>
    /\ g_expiries = <<>>
    /\ g_frame = FrameIdle

\* _get_weekly_expiries(n_weeks) up to friday = d + Period(days_until_friday)
WeeklyEnter ==
    /\ g_pc = "env"
    /\ \E n_weeks \in WeekCounts :
        call' = Call("_get_weekly_expiries", <<n_weeks>>, Returned(None))
    /\ g_frame' = Frame(FirstFridayAnchor(g_date), 0, 0)
    /\ g_pc' = "w_anchor"
    /\ UNCHANGED <<g_date, g_cal, g_weeklies, g_monthlies, g_expiries>>
    /\ UNCHANGED <<package, evaluationDate, envs, option, iface>>

\* friday = self.calendar.adjust(friday, ql.Preceding); expiries.append(friday)
WeeklyRollFirst ==
    /\ g_pc = "w_anchor"
    /\ LET friday == adjustPreceding(g_cal, g_frame.friday)
       IN  /\ g_frame' = Frame(friday, 0, 0)
           /\ g_weeklies' = <<friday>>
    /\ g_pc' = "w_for"
    /\ UNCHANGED <<g_date, g_cal, g_monthlies, g_expiries, pvars>>

\* friday += ql.Period(1, ql.Weeks)
AddOneWeek(friday) == friday + 7

\* for i in range(n_weeks): friday += ql.Period(1, ql.Weeks); return expiries
WeeklyFor ==
    /\ g_pc = "w_for"
    /\ IF g_frame.i < call.args[1]
       THEN /\ g_frame' = Frame(AddOneWeek(g_frame.friday), g_frame.i, 0)
            /\ g_pc' = "w_while"
       ELSE /\ g_pc' = "returned"
            /\ UNCHANGED g_frame
    /\ UNCHANGED <<g_date, g_cal, g_weeklies, g_monthlies, g_expiries, pvars>>

\* variant: the weekly loop never steps forward to the Friday
WeeklyNeverSteps(friday) == FALSE

\* while friday.weekday() != 6 (weekly loop)
WeeklyNotFriday(friday) == weekday(friday) # Friday

\* one test of the while condition: a single-day step, or the roll and the
\* append that follow the loop
WeeklyWhile ==
    /\ g_pc = "w_while"
    /\ IF WeeklyNotFriday(g_frame.friday)
       THEN /\ g_frame.steps < MaxDaySteps
            /\ g_frame' = Frame(g_frame.friday + 1, g_frame.i, g_frame.steps + 1)
            /\ UNCHANGED <<g_pc, g_weeklies>>
       ELSE /\ LET friday == adjustPreceding(g_cal, g_frame.friday)
               IN  /\ g_frame' = Frame(friday, g_frame.i + 1, g_frame.steps)
                   /\ g_weeklies' = Append(g_weeklies, friday)
            /\ g_pc' = "w_for"
    /\ UNCHANGED <<g_date, g_cal, g_monthlies, g_expiries, pvars>>

\* _get_third_friday_expiries(n_months) up to the for statement
MonthlyEnter ==
    /\ g_pc = "env"
    /\ \E n_months \in MonthCounts :
        call' = Call("_get_third_friday_expiries", <<n_months>>, Returned(None))
    /\ g_frame' = Frame(0, 0, 0)
    /\ g_expiries' = <<>>
    /\ g_pc' = "m_for"
    /\ UNCHANGED <<g_date, g_cal, g_weeklies, g_monthlies>>
    /\ UNCHANGED <<package, evaluationDate, envs, option, iface>>

\* for i in range(n_months): ... third_friday = first_day + Period(14, Days)
MonthlyFor ==
    /\ g_pc = "m_for"
    /\ IF g_frame.i < call.args[1]
       THEN /\ g_frame' = Frame(FirstDayOfOffset(g_date, g_frame.i) + 14,
                                 g_frame.i, 0)
            /\ g_pc' = "m_while"
       ELSE /\ g_pc' = "looped"
            /\ UNCHANGED g_frame
    /\ UNCHANGED <<g_date, g_cal, g_weeklies, g_monthlies, g_expiries, pvars>>

\* variant: the loop waits for a weekday number the date service never
\* returns
MonthlyNotWeekdayZero(third_friday) == weekday(third_friday) # 0

\* while third_friday.weekday() != 6 (monthly loop)
MonthlyNotFriday(third_friday) == weekday(third_friday) # Friday

\* one test of the while condition: a single-day step, or the roll and the
\* append that follow the loop
MonthlyWhile ==
    /\ g_pc = "m_while"
    /\ IF MonthlyNotFriday(g_frame.friday)
       THEN /\ g_frame.steps < MaxDaySteps
            /\ g_frame' = Frame(g_frame.friday + 1, g_frame.i, g_frame.steps + 1)
            /\ UNCHANGED <<g_pc, g_expiries>>
       ELSE /\ LET third_friday == adjustPreceding(g_cal, g_frame.friday)
               IN  /\ g_frame' = Frame(third_friday, g_frame.i + 1, g_frame.steps)
                   /\ g_expiries' = Append(g_expiries, third_friday)
            /\ g_pc' = "m_for"
    /\ UNCHANGED <<g_date, g_cal, g_weeklies, g_monthlies, pvars>>

NextLoops ==
    \/ WeeklyEnter
    \/ WeeklyRollFirst
    \/ WeeklyFor
    \/ WeeklyWhile
    \/ MonthlyEnter
    \/ MonthlyFor
    \/ MonthlyWhile
    \/ ThirdFridayDrop
    \/ ThirdFridayTruncate

LoopSpec == InitLoops /\ [][NextLoops]_vars

\* the interpreter runs the statements of a called method one after another
LoopFairSpec == LoopSpec /\ WF_vars(NextLoops)

(***************************************************************************)
(* Environment construction from a configuration: the resolvers, the       *)
(* surface factory and MarketEnvironment.from_config, called by a client.  *)
(***************************************************************************)
\* calendar names: two supported ones and an unsupported one
CalendarNames == {"UnitedStates/NYSE", "TARGET", "Mars"}

\* day-count names: a day-count class, a class of the library that is not
\* a day counter, a class that cannot be called bare, a name the library
\* does not have
DayCountNames == {"Actual365Fixed", "TARGET", "FlatForward", "Actual/365"}

\* the volatility_surfaces map of the configuration (vol in percent)
VolatilitySurfaces ==
    [normal |-> VolConfig("model", "flat", 20),
     term |-> VolConfig("model", "term_structure", 20),
     smile |-> VolConfig("model", "smile", 20)]

\* regime keys: the three of the map and one the map does not have
RegimeKeys == {"normal", "term", "smile", "crisis"}

VolConfigs ==
    {VolConfig(k, t, v) : k \in {"dict", "model"},
                          t \in {"flat", "term_structure", "smile", "Flat"},
                          v \in {20, 35}}

\* ISO pricing dates 2023-12-15 and 2024-01-02
PricingDateStrings == {<<2023, 12, 15>>, <<2024, 1, 2>>}

\* the pricer and instrument sections of a configuration
PricerSection(model, engine, steps) ==
    [model |-> model, engine |-> engine, steps |-> steps, bid_ask_spread |-> 10,
     heston_params |-> HestonParams(HestonParamNames)]

InstrumentSection(option_type, style) ==
    [option_type |-> option_type, strike |-> 100, expiry |-> <<2024, 6, 21>>,
     style |-> style]

\* a validated FullConfig
FullConfig(pricing_date, regime, calendar, day_count, pricer, instrument) ==
    [market_env |-> [pricing_date |-> pricing_date,
                     volatility_regime |-> regime, calendar |-> calendar,
                     day_count |-> day_count],
     underlying |-> [name |-> "SPX", spot |-> 100],
     curves |-> [risk_free |-> [type |-> "flat", rate |-> 5],
                 dividend |-> [type |-> "flat", rate |-> 2]],
     volatility_surfaces |-> VolatilitySurfaces,
     option_instrument |-> instrument,
     pricer |-> pricer]

\* the configurations handed to from_config
EnvConfigs ==
    {FullConfig(d, r, c, dc, PricerSection("bsm", "analytic", 100),
                InstrumentSection("call", "european")) :
        d \in PricingDateStrings, r \in RegimeKeys, c \in CalendarNames,
        dc \in DayCountNames}

InitEnv == Init /\ package = "pricing_engine"

\* Conventions.get_calendar(name)
CallGetCalendar ==
    /\ \E name \in CalendarNames :
        call' = Call("get_calendar", <<name>>, get_calendar(name))
    /\ UNCHANGED <<package, evaluationDate, envs, option, iface, gvars>>

\* Conventions.get_day_count(name)
CallGetDayCount ==
    /\ \E name \in DayCountNames :
        call' = Call("get_day_count", <<name>>, get_day_count(name))
    /\ UNCHANGED <<package, evaluationDate, envs, option, iface, gvars>>

\* Conventions(calendar_name, day_count).build()
CallConventionsBuild ==
    /\ \E calendar_name \in CalendarNames, day_count \in DayCountNames :
        call' = Call("Conventions.build", <<calendar_name, day_count>>,
                     ConventionsBuild(calendar_name, day_count))
    /\ UNCHANGED <<package, evaluationDate, envs, option, iface, gvars>>

\* VolatilitySurfaceFactory.from_config(vol_config)
CallVolFromConfig ==
    /\ \E vol_config \in VolConfigs :
        call' = Call("VolatilitySurfaceFactory.from_config", <<vol_config>>,
                     VolatilitySurfaceFactory_from_config(vol_config))
    /\ UNCHANGED <<package, evaluationDate, envs, option, iface, gvars>>

\* variant: the valuation date is written as soon as the pricing date is
\* parsed
EvaluationDateWrittenEarly(stored, pricing_date) == pricing_date

\* an exception raised before cls(...) is reached: __init__ and its write of
\* the valuation date are not executed
EvaluationDateAfterRaise(stored, pricing_date) == stored

\* MarketEnvironment.from_config(cfg): a returned environment has run
\* __init__ to its last statement, the write of the valuation date
CallFromConfig ==
    /\ Len(envs) < MaxEnvs
    /\ \E cfg \in EnvConfigs :
        LET res == from_config(cfg)
        IN  /\ call' = Call("from_config", <<cfg>>, res)
            /\ IF res.status = "returned"
               THEN /\ envs' = Append(envs, res.value)
                    /\ evaluationDate' =
                            EvaluationDateAfterInit(evaluationDate,
                                                    res.value.pricing_date)
               ELSE /\ envs' = envs
                    /\ evaluationDate' =
                            EvaluationDateAfterRaise(
                                evaluationDate,
                                parseISO(cfg.market_env.pricing_date))
    /\ UNCHANGED <<package, option, iface, gvars>>

NextEnv ==
    \/ CallGetCalendar
    \/ CallGetDayCount
    \/ CallConventionsBuild
    \/ CallVolFromConfig
    \/ CallFromConfig

EnvSpec == InitEnv /\ [][NextEnv]_vars

(***************************************************************************)
(* PricingInterface: one request, from the loaded configuration through    *)
(* the statements of __init__ to the calls of price().                     *)
(***************************************************************************)
\* the configurations of a request
InterfaceConfigs ==
    {FullConfig(<<2024, 1, 2>>, r, c, dc, PricerSection(m, e, n),
                InstrumentSection(t, st)) :
        r \in RegimeKeys, c \in CalendarNames, dc \in DayCountNames,
        m \in ModelKinds, e \in EngineKinds, n \in StepsInputs,
        t \in OptionTypes, st \in Styles}

\* self.cfg = load_config(); self.expiry_date = parseISO(...)
InitInterface ==
    /\ package = "pricing_engine"
    /\ evaluationDate = 0
    /\ envs = <<>>
    /\ option = None
    /\ call = Call("none", <<>>, Returned(None))
    /\ GenIdle
    /\ \E cfg \in InterfaceConfigs :
        iface = Interface("loaded", cfg, parseISO(cfg.option_instrument.expiry),
                          None, None, None, None, "", None, None)

\* an exception leaves __init__: no interface object comes into being
InitFailed(at, error) ==
    [iface EXCEPT !.pc = "failed", !.failed_at = at, !.error = error]

\* self.market_env = MarketEnvironment.from_config(self.cfg)
IfaceFromConfig ==
    /\ iface.pc = "loaded"
    /\ LET res == from_config(iface.cfg)
       IN  IF res.status = "returned"
           THEN /\ iface' = [iface EXCEPT !.pc = "env", !.market_env = res.value]
                /\ envs' = Append(envs, res.value)
                /\ evaluationDate' =
                        EvaluationDateAfterInit(evaluationDate,
                                                res.value.pricing_date)
           ELSE /\ iface' = InitFailed("environment", res.value)
                /\ UNCHANGED <<envs, evaluationDate>>
    /\ UNCHANGED <<package, option, call, gvars>>

\* self._model = ModelFactory.create_model(...)
IfaceCreateModel ==
    /\ iface.pc = "env"
    /\ LET res == create_model(iface.cfg.pricer.model,
                               iface.market_env.underlying.spot,
                               iface.market_env.dividend_curve,
                               iface.market_env.risk_free_curve,
                               iface.market_env.vol_surface,
                               iface.cfg.pricer.heston_params)
       IN  iface' = IF res.status = "returned"
                    THEN [iface EXCEPT !.pc = "model", !.model = res.value]
                    ELSE InitFailed("model", res.value)
    /\ UNCHANGED <<package, evaluationDate, envs, option, call, gvars>>

\* variant: the interface passes the configured number of steps
InterfaceStepsConfigured == iface.cfg.pricer.steps

\* the steps argument of the create_engine call in __init__: steps=100
InterfaceSteps == 100

\* self._engine = EngineFactory.create_engine(self._model, ..., steps=100)
IfaceCreateEngine ==
    /\ iface.pc = "model"
    /\ LET res == create_engine(iface.model, iface.cfg.pricer.engine,
                                InterfaceSteps)
       IN  iface' = IF res.status = "returned"
                    THEN [iface EXCEPT !.pc = "engine", !.engine = res.value]
                    ELSE InitFailed("engine", res.value)
    /\ UNCHANGED <<package, evaluationDate, envs, option, call, gvars>>

\* self.option = OptionInstrument(...): __init__ returns
IfaceConstructOption ==
    /\ iface.pc = "engine"
    /\ iface' = [iface EXCEPT
                    !.pc = "constructed",
                    !.option =
                        OptionInstrument("pricing_engine",
                                         iface.cfg.option_instrument.option_type,
                                         iface.cfg.option_instrument.strike,
                                         iface.expiry_date,
                                         iface.cfg.option_instrument.style,
                                         iface.engine,
                                         iface.cfg.pricer.bid_ask_spread)]
    /\ UNCHANGED <<package, evaluationDate, envs, option, call, gvars>>

\* interface.price(): return self.option.price()
IfacePrice ==
    /\ iface.pc \in {"constructed", "priced", "price_failed"}
    /\ \E clock \in ClockDates, answer \in EngineAnswers :
        LET out == price(iface.option,
                         EvaluationDateRead(evaluationDate, clock), answer)
        IN  iface' = IF out.status = "returned"
                     THEN [iface EXCEPT !.pc = "priced", !.failed_at = "",
                                        !.error = None, !.result = out.value]
                     ELSE [iface EXCEPT !.pc = "price_failed",
                                        !.failed_at = "price",
                                        !.error = out.value, !.result = None]
    /\ UNCHANGED <<package, evaluationDate, envs, option, call, gvars>>

\* a client of a constructed interface calls the factory itself, with the
\* interface's model and a number of steps of its choice
ClientCreateEngine ==
    /\ iface.pc \in {"constructed", "priced", "price_failed"}
    /\ \E n \in StepsInputs :
        call' = Call("create_engine", <<iface.model, iface.cfg.pricer.engine, n>>,
                     create_engine(iface.model, iface.cfg.pricer.engine, n))
    /\ UNCHANGED <<package, evaluationDate, envs, option, iface, gvars>>

NextInterface ==
    \/ IfaceFromConfig
    \/ IfaceCreateModel
    \/ IfaceCreateEngine
    \/ IfaceConstructOption
    \/ IfacePrice
    \/ ClientCreateEngine

InterfaceSpec == InitInterface /\ [][NextInterface]_vars

(***************************************************************************)
(* Properties.                                                             *)
(***************************************************************************)
SupportedPairing(m, k) ==
    \/ m.tag = "BlackScholesModel" /\ k \in {"analytic", "binomial"}
    \/ m.tag = "HestonModel" /\ k = "heston"

IsPairingError(e) ==
    /\ e.tag = "Error"
    /\ e.type = "ValueError"
    /\ e.msg \in {"Unknown engine type for Black-Scholes",
                  "Unknown engine type for Heston model",
                  "Engine not supported for this model type."}

EngineTagOf(k) ==
    IF k = "analytic" THEN "AnalyticEuropeanEngine"
    ELSE IF k = "binomial" THEN "BinomialVanillaEngine"
    ELSE "AnalyticHestonEngine"

\* the model's build() succeeds: a Black surface, all five Heston parameters
Buildable(m) ==
    IF m.tag = "BlackScholesModel"
    THEN m.vol_surface.tag = "BlackConstantVol"
    ELSE /\ m.params.tag = "HestonParams"
         /\ \A n \in {"v0", "kappa", "theta", "sigma", "rho"} : n \in m.params.present

\* C1 as stated: create_engine returns a built engine for every supported
\* (model variant, engine_kind) pair and fails with the pairing error for
\* every other combination.
C1_AsStated ==
    call.op = "create_engine" =>
        IF SupportedPairing(call.args[1], call.args[2])
        THEN /\ call.status = "returned"
             /\ call.value.tag = EngineTagOf(call.args[2])
        ELSE /\ call.status = "raised"
             /\ IsPairingError(call.value)

\* C1 (amended): for a supported pair create_engine returns the built engine
\* of that kind when the model's build() succeeds, and lets the build error
\* (not a pairing error) propagate when it fails; for every other
\* combination it fails with the pairing error; a failure returns no engine.
C1_PairingTable ==
    call.op = "create_engine" =>
        LET m == call.args[1]
            k == call.args[2]
        IN  IF ~SupportedPairing(m, k)
            THEN call.status = "raised" /\ IsPairingError(call.value)
            ELSE IF Buildable(m)
            THEN /\ call.status = "returned"
                 /\ call.value.tag = EngineTagOf(k)
                 /\ k = "binomial" => call.value.steps = call.args[3]
            ELSE /\ call.status = "raised"
                 /\ call.value.tag = "Error"
                 /\ call.value.type \in {"TypeError", "AttributeError"}

\* scenario B: a Black-Scholes model with engine_kind 'heston' was refused
C1_Witness ==
    /\ call.op = "create_engine"
    /\ call.args[1].tag = "BlackScholesModel"
    /\ call.args[1].vol_surface.tag = "BlackConstantVol"
    /\ call.args[2] = "heston"
    /\ call.status = "raised"

\* C2: create_model returns a BlackScholesModel holding its arguments for
\* 'bsm', a HestonModel holding spot, curves and parameters (and no trace of
\* vol_surface) for 'heston', and raises the unknown-model error, returning
\* no object, for every other model kind.
C2_CreateModel ==
    call.op = "create_model" =>
        LET a == call.args
        IN  IF a[1] = "bsm"
            THEN /\ call.status = "returned"
                 /\ call.value = [tag |-> "BlackScholesModel", spot |-> a[2],
                                  dividend_curve |-> a[3],
                                  risk_free_curve |-> a[4],
                                  vol_surface |-> a[5]]
            ELSE IF a[1] = "heston"
            THEN /\ call.status = "returned"
                 /\ call.value = [tag |-> "HestonModel", spot |-> a[2],
                                  risk_free_curve |-> a[4],
                                  dividend_curve |-> a[3], params |-> a[6]]
            ELSE /\ call.status = "raised"
                 /\ call.value = [tag |-> "Error", type |-> "ValueError",
                                  msg |-> "Unknown model type"]

\* an unsupported model kind was refused
C2_Witness ==
    /\ call.op = "create_model"
    /\ call.args[1] = "sabr"
    /\ call.status = "raised"

\* C3: a returned price dictionary has mid = the engine's value; with a
\* spread s > 0, bid = mid - s/2 and ask = mid + s/2, so ask - bid = s and
\* bid <= ask, and bid is negative when mid < s/2; otherwise bid = ask = mid.
\* (Dictionary amounts are in half ticks, mid and s in ticks.)
C3_BidAsk ==
    (call.op = "price" /\ call.status = "returned") =>
        LET s == option.bid_ask_spread
            m == call.npv.npv
            q == call.value
        IN  /\ q.mid = 2 * m
            /\ s > 0 => /\ q.bid = 2 * m - s
                        /\ q.ask = 2 * m + s
                        /\ q.ask - q.bid = 2 * s
                        /\ q.bid <= q.ask
                        /\ (2 * m < s => q.bid < 0)
            /\ ~(s > 0) => (q.bid = q.mid /\ q.ask = q.mid)

\* a spread of 0.10 on a value of 0.03 gave a negative bid
C3_Witness ==
    /\ call.op = "price"
    /\ call.status = "returned"
    /\ option.bid_ask_spread = 10
    /\ call.npv.npv = 3
    /\ call.value.bid < 0

\* C4: every step leaves the process-wide valuation date equal to the
\* pricing date of the most recently constructed MarketEnvironment, and only
\* a MarketEnvironment construction changes it.
C4_ValuationDate ==
    [][/\ Len(envs') > 0 => evaluationDate' = envs'[Len(envs')].pricing_date
       /\ evaluationDate' # evaluationDate =>
            (call'.op = "MarketEnvironment" /\ Len(envs') = Len(envs) + 1)]_vars

\* two environments with different pricing dates were built and a later
\* price() left the second one's date in force
C4_Witness ==
    /\ Len(envs) = 2
    /\ envs[1].pricing_date # envs[2].pricing_date
    /\ evaluationDate = envs[2].pricing_date
    /\ call.op = "price"

\* C5: the exercise window an American instrument gets from price() starts
\* at the valuation date in force when price() runs, i.e. the pricing date
\* of the most recently built environment, whichever environment was
\* current when the instrument was constructed.
C5_AmericanToday ==
    (/\ call.op = "price"
     /\ option.style = "american"
     /\ call.exercise # None
     /\ Len(envs) > 0) =>
        call.exercise = [tag |-> "AmericanExercise",
                         earliest |-> envs[Len(envs)].pricing_date,
                         latest |-> option.expiry]

\* after environments A and B with different dates, an American instrument
\* was priced with B's date as the start of its window
C5_Witness ==
    /\ Len(envs) = 2
    /\ envs[1].pricing_date # envs[2].pricing_date
    /\ call.op = "price"
    /\ option.style = "american"
    /\ call.exercise # None
    /\ call.exercise.earliest = envs[2].pricing_date

UnknownTypeError ==
    [tag |-> "Error", type |-> "ValueError", msg |-> "Unknown option type"]

UnknownStyleError ==
    [tag |-> "Error", type |-> "ValueError", msg |-> "Unknown option style"]

NoEngineError ==
    [tag |-> "Error", type |-> "ValueError", msg |-> "No pricing engine set"]

\* C6: construction of an OptionInstrument always succeeds; in price(),
\* 'call' yields the vanilla call payoff at the strike, 'put' the vanilla
\* put payoff at the strike, and any other option type makes price() fail
\* with the unknown-option-type error - in every implementation.
C6_PayoffByType ==
    /\ call.op = "OptionInstrument" => call.status = "returned"
    /\ call.op = "price" =>
        IF option.option_type = "call"
        THEN call.payoff = [tag |-> "PlainVanillaPayoff", type |-> "Call",
                            strike |-> option.strike]
        ELSE IF option.option_type = "put"
        THEN call.payoff = [tag |-> "PlainVanillaPayoff", type |-> "Put",
                            strike |-> option.strike]
        ELSE call.status = "raised" /\ call.value = UnknownTypeError

\* C7 as stated (pricing_engine's OptionInstrument): a European exercise is
\* exactly at expiry, and any style other than 'european' or 'american'
\* makes price() fail with the unknown-style error.
C7_AsStated ==
    (package = "pricing_engine" /\ call.op = "price") =>
        /\ (option.style = "european" /\ call.payoff # None) =>
                call.exercise = [tag |-> "EuropeanExercise",
                                 date |-> option.expiry]
        /\ option.style \notin {"european", "american"} =>
                (call.status = "raised" /\ call.value = UnknownStyleError)

\* C7 (amended): construction never fails; a European exercise is exactly at
\* the instrument's expiry whatever the valuation date; any style other than
\* 'european' or 'american' makes price() fail, with the unknown-style error
\* whenever the payoff, which is built first, was built, and with the
\* payoff's own error otherwise.
C7_ExerciseByStyle ==
    /\ call.op = "OptionInstrument" => call.status = "returned"
    /\ call.op = "price" =>
        /\ (option.style = "european" /\ call.payoff # None) =>
                call.exercise = [tag |-> "EuropeanExercise",
                                 date |-> option.expiry]
        /\ option.style \notin {"european", "american"} =>
                /\ call.status = "raised"
                /\ call.exercise = None
                /\ call.payoff # None => call.value = UnknownStyleError
                /\ call.payoff = None => call.value # UnknownStyleError

\* a call option of style 'bermudan' was refused by price(), after an
\* environment had set the valuation date
C7_Witness ==
    /\ call.op = "price"
    /\ option.option_type = "call"
    /\ option.style = "bermudan"
    /\ call.value = UnknownStyleError
    /\ evaluationDate # 0

\* C8 as stated (pricing_engine's OptionInstrument): with no engine
\* attached price() fails with the no-engine error and never asks an engine.
C8_AsStated ==
    (package = "pricing_engine" /\ call.op = "price" /\ option.engine = None) =>
        /\ call.status = "raised"
        /\ call.value = NoEngineError
        /\ ~call.npv_asked

\* C8 (amended): with no engine attached price() always fails, returns no
\* dictionary and never asks an engine; the failure is the no-engine error
\* whenever payoff and exercise, which are built first, were both built.
C8_NoEngine ==
    (call.op = "price" /\ option.engine = None) =>
        /\ call.status = "raised"
        /\ call.value.tag = "Error"
        /\ ~call.npv_asked
        /\ call.npv = None
        /\ (call.payoff # None /\ call.exercise # None) =>
                call.value = NoEngineError

\* a valid European call without an engine was refused with the no-engine
\* error
C8_Witness ==
    /\ call.op = "price"
    /\ option.engine = None
    /\ option.option_type = "call"
    /\ option.style = "european"
    /\ call.value = NoEngineError

IsStrictlyAscending(s) == \A i \in 1..Len(s) : \A j \in 1..Len(s) : i < j => s[i] < s[j]

DatesOf(s) == {s[i] : i \in 1..Len(s)}

\* C9: the schedule returned by _generate_expiries holds exactly the dates of
\* the weekly list and of the retained monthly list, strictly ascending,
\* hence without duplicates.
C9_SortedUnion ==
    g_pc = "done" =>
        /\ DatesOf(g_expiries) = DatesOf(g_weeklies) \cup DatesOf(g_monthlies)
        /\ IsStrictlyAscending(g_expiries)

\* a schedule was returned in which a weekly and a monthly expiry coincide
C9_Witness ==
    /\ g_pc = "done"
    /\ \E i \in 1..Len(g_weeklies) : \E j \in 1..Len(g_monthlies) :
            g_weeklies[i] = g_monthlies[j]
    /\ Len(g_expiries) < Len(g_weeklies) + Len(g_monthlies)

\* C10: neither the first weekly expiry nor the first monthly expiry left by
\* the drop rule is before the pricing date, and no date of the returned
\* schedule is before the pricing date.
C10_NotBeforePricingDate ==
    /\ g_pc \in {"weeklies", "monthlies", "done"} => g_weeklies[1] >= g_date
    /\ g_pc \in {"monthlies", "done"} => g_monthlies[1] >= g_date
    /\ g_pc = "done" => \A i \in 1..Len(g_expiries) : g_expiries[i] >= g_date

\* d is a business day of cal (Monday .. Friday and not a holiday)
IsOpen(cal, d) == (d % 7) \in 2..6 /\ d \notin cal

\* e is a Friday that was rolled back over closed days only
RolledFriday(cal, e) ==
    \E f \in e .. (e + 6) :
        /\ f % 7 = 6
        /\ \A x \in (e + 1) .. f : ~IsOpen(cal, x)

\* C11: every weekly expiry and every monthly expiry is a business day of
\* the environment's calendar, namely a Friday rolled back to the preceding
\* business day.
C11_BusinessDays ==
    /\ g_pc \in {"weeklies", "monthlies", "done"} =>
            \A i \in 1..Len(g_weeklies) :
                IsOpen(g_cal, g_weeklies[i]) /\ RolledFriday(g_cal, g_weeklies[i])
    /\ g_pc \in {"monthlies", "done"} =>
            \A i \in 1..Len(g_monthlies) :
                IsOpen(g_cal, g_monthlies[i]) /\ RolledFriday(g_cal, g_monthlies[i])

\* a schedule was returned in which a weekly expiry after the first and a
\* monthly expiry were rolled off their (holiday) Fridays
C11_Witness ==
    /\ g_pc = "done"
    /\ \E i \in 2..Len(g_weeklies) : g_weeklies[i] % 7 # 6
    /\ \E i \in 1..Len(g_monthlies) : g_monthlies[i] % 7 # 6

\* C12: with kept the monthly list left by the drop rule, the returned ladder
\* is kept itself when kept has 6 or fewer entries, and otherwise has exactly
\* 7 entries: the first 6 of kept in order, then the last one of kept; with
\* the default count 13 the ladder has 7 entries, dropped month or not.
C12_MonthlyLadder ==
    (call.op = "_get_third_friday_expiries" /\ g_pc = "returned") =>
        LET kept == g_expiries
            n == call.args[1]
        IN  /\ Len(kept) > 6 =>
                /\ Len(g_monthlies) = 7
                /\ \A i \in 1..6 : g_monthlies[i] = kept[i]
                /\ g_monthlies[7] = kept[Len(kept)]
            /\ Len(kept) <= 6 => g_monthlies = kept
            /\ n = 13 => (Len(kept) \in {12, 13} /\ Len(g_monthlies) = 7)

\* a ladder of 7 was returned for count 13 after the first month was dropped
C12_Witness ==
    /\ call.op = "_get_third_friday_expiries"
    /\ g_pc = "returned"
    /\ call.args[1] = 13
    /\ Len(g_expiries) = 12
    /\ Len(g_monthlies) = 7

\* the latest business day before d
PriorBusinessDay(cal, d) ==
    CHOOSE b \in (d - 7) .. (d - 1) :
        IsOpen(cal, b) /\ \A x \in (b + 1) .. (d - 1) : ~IsOpen(cal, x)

\* C13: _get_weekly_expiries(count) returns count + 1 dates; for pricing
\* date 2024-01-02 and count 4 it returns 5 dates, the first of which is
\* Friday 2024-01-05, or the prior business day when that Friday is a
\* holiday of the calendar.
C13_WeeklyCount ==
    call.op = "_get_weekly_expiries" =>
        /\ Len(g_weeklies) = call.args[1] + 1
        /\ (g_date = MakeDate(2, 1, 2024) /\ call.args[1] = 4) =>
                /\ Len(g_weeklies) = 5
                /\ g_weeklies[1] =
                        IF MakeDate(5, 1, 2024) \in g_cal
                        THEN PriorBusinessDay(g_cal, MakeDate(5, 1, 2024))
                        ELSE MakeDate(5, 1, 2024)

\* scenario A with Friday 2024-01-05 a holiday: 5 dates, the first one
\* Thursday 2024-01-04
C13_Witness ==
    /\ call.op = "_get_weekly_expiries"
    /\ g_date = MakeDate(2, 1, 2024)
    /\ call.args[1] = 4
    /\ MakeDate(5, 1, 2024) \in g_cal
    /\ g_weeklies[1] = MakeDate(4, 1, 2024)
    /\ Len(g_weeklies) = 5

HestonParamsComplete(p) ==
    /\ p.tag = "HestonParams"
    /\ \A n \in {"v0", "kappa", "theta", "sigma", "rho"} : n \in p.present

\* C15: create_engine never returns an engine for a Heston model whose
\* parameters are absent or lack one of v0, kappa, theta, sigma, rho - the
\* call fails - so that no instrument ever holds, and price() never asks, a
\* Heston engine built from incomplete parameters.
C15_HestonParamsRequired ==
    /\ (/\ call.op = "create_engine"
        /\ call.args[1].tag = "HestonModel"
        /\ ~HestonParamsComplete(call.args[1].params)) =>
            (call.status = "raised" /\ call.value.tag = "Error")
    /\ (/\ option # None
        /\ option.engine # None
        /\ option.engine.tag = "AnalyticHestonEngine") =>
            HestonParamsComplete(option.engine.process.params)

\* a Heston model without rho was refused by create_engine('heston')
C15_Witness ==
    /\ call.op = "create_engine"
    /\ call.args[1].tag = "HestonModel"
    /\ call.args[1].params.tag = "HestonParams"
    /\ "rho" \notin call.args[1].params.present
    /\ call.args[2] = "heston"
    /\ call.status = "raised"
    /\ call.value.type = "AttributeError"

\* the calendar names of the supported set
ValidCalendarName(n) ==
    n \in {"UnitedStates/NYSE", "UnitedStates/GovernmentBond", "TARGET", "UK"}

\* the names that denote a day-count convention
ValidDayCountName(n) == n \in {"Actual365Fixed", "Actual360"}

IsConfigurationError(e) == e.tag = "Error" /\ e.type = "ValueError"

\* C16: get_calendar rejects every name outside the supported set and
\* get_day_count every name that does not denote a day-count convention,
\* with the configuration error and without returning an object;
\* Conventions.build returns a pair exactly when both names are valid.
C16_InvalidIdentifiersRejected ==
    /\ (call.op = "get_calendar" /\ ~ValidCalendarName(call.args[1])) =>
            (call.status = "raised" /\ IsConfigurationError(call.value))
    /\ (call.op = "get_day_count" /\ ~ValidDayCountName(call.args[1])) =>
            (call.status = "raised" /\ IsConfigurationError(call.value))
    /\ call.op = "Conventions.build" =>
            IF ValidCalendarName(call.args[1]) /\ ValidDayCountName(call.args[2])
            THEN call.status = "returned"
            ELSE call.status = "raised" /\ IsConfigurationError(call.value)

\* C17 as stated: 'flat' gives the flat surface with the configured vol and
\* every other surface type fails with the not-implemented error.
C17_AsStated ==
    call.op = "VolatilitySurfaceFactory.from_config" =>
        IF call.args[1].type = "flat"
        THEN /\ call.status = "returned"
             /\ call.value = [tag |-> "FlatVolSurface", vol |-> call.args[1].vol]
        ELSE /\ call.status = "raised"
             /\ call.value.tag = "Error"
             /\ call.value.type = "NotImplementedError"

\* C17 (amended): 'flat' gives the flat surface with the configured vol;
\* 'term_structure' fails with the not-implemented error; every other type
\* fails with the unknown-surface-type error (a ValueError); no surface is
\* returned for a type other than 'flat'.
C17_VolSurfaceFactory ==
    call.op = "VolatilitySurfaceFactory.from_config" =>
        IF call.args[1].type = "flat"
        THEN /\ call.status = "returned"
             /\ call.value = [tag |-> "FlatVolSurface", vol |-> call.args[1].vol]
        ELSE /\ call.status = "raised"
             /\ call.value.tag = "Error"
             /\ call.value.type =
                    IF call.args[1].type = "term_structure"
                    THEN "NotImplementedError" ELSE "ValueError"

\* the surface type 'smile' was refused with the unknown-type error
C17_Witness ==
    /\ call.op = "VolatilitySurfaceFactory.from_config"
    /\ call.args[1].type = "smile"
    /\ call.status = "raised"
    /\ call.value.type = "ValueError"

\* C19: in every environment from_config returned, the volatility surface,
\* the risk-free curve and the dividend curve have the environment's
\* pricing date as reference date and the environment's calendar as
\* calendar.
C19_Anchored ==
    \A i \in 1..Len(envs) :
        LET env == envs[i]
        IN  /\ env.vol_surface.referenceDate = env.pricing_date
            /\ env.vol_surface.calendar = env.calendar
            /\ env.risk_free_curve.referenceDate = env.pricing_date
            /\ env.risk_free_curve.calendar = env.calendar
            /\ env.dividend_curve.referenceDate = env.pricing_date
            /\ env.dividend_curve.calendar = env.calendar

\* C20: create_model('bsm', ...) returns a model holding the vol_surface it
\* was given, whatever that is; for a Black-Scholes model whose surface is
\* not a Black vol term structure, create_engine fails with the TypeError of
\* build() for engine_kind 'analytic' or 'binomial', and with the pairing
\* error, build() not having been called, for any other engine_kind; in
\* neither case is an engine returned.
C20_LazyVolCheck ==
    /\ (call.op = "create_model" /\ call.args[1] = "bsm") =>
            /\ call.status = "returned"
            /\ call.value.tag = "BlackScholesModel"
            /\ call.value.vol_surface = call.args[5]
    /\ (/\ call.op = "create_engine"
        /\ call.args[1].tag = "BlackScholesModel"
        /\ call.args[1].vol_surface.tag # "BlackConstantVol") =>
            /\ call.status = "raised"
            /\ IF call.args[2] \in {"analytic", "binomial"}
               THEN call.value =
                        [tag |-> "Error", type |-> "TypeError",
                         msg |-> "vol_surface must be a QuantLib BlackVolTermStructure"]
               ELSE IsPairingError(call.value)

\* a Black-Scholes model created without a surface was refused by
\* create_engine('binomial') with the TypeError of build()
C20_Witness ==
    /\ call.op = "create_engine"
    /\ call.args[1].tag = "BlackScholesModel"
    /\ call.args[1].vol_surface = None
    /\ call.args[2] = "binomial"
    /\ call.status = "raised"
    /\ call.value.type = "TypeError"

\* the configuration names an unknown calendar, day count or volatility
\* regime, or a surface of an unsupported type
EnvironmentFault(cfg) ==
    \/ ~ValidCalendarName(cfg.market_env.calendar)
    \/ ~ValidDayCountName(cfg.market_env.day_count)
    \/ cfg.market_env.volatility_regime \notin {"normal", "term", "smile"}
    \/ cfg.market_env.volatility_regime \in {"term", "smile"}

ModelFault(cfg) == cfg.pricer.model \notin {"bsm", "heston"}

\* an unknown engine kind, or a known one the model does not pair with
EngineFault(cfg) ==
    ~ \/ cfg.pricer.model = "bsm" /\ cfg.pricer.engine \in {"analytic", "binomial"}
      \/ cfg.pricer.model = "heston" /\ cfg.pricer.engine = "heston"

InstrumentFault(cfg) ==
    \/ cfg.option_instrument.option_type \notin {"call", "put"}
    \/ cfg.option_instrument.style \notin {"european", "american"}

\* where a request stands, given the first fault of its configuration
StageOrder(f) ==
    LET cfg == f.cfg
        built == {"constructed", "priced", "price_failed"}
    IN  /\ EnvironmentFault(cfg) =>
                /\ f.pc \in {"loaded", "failed"}
                /\ f.pc = "failed" => f.failed_at = "environment"
        /\ (~EnvironmentFault(cfg) /\ ModelFault(cfg)) =>
                /\ f.pc \in {"loaded", "env", "failed"}
                /\ f.pc = "failed" => f.failed_at = "model"
        /\ (~EnvironmentFault(cfg) /\ ~ModelFault(cfg) /\ EngineFault(cfg)) =>
                /\ f.pc \in {"loaded", "env", "model", "failed"}
                /\ f.pc = "failed" => f.failed_at = "engine"
        /\ (~EnvironmentFault(cfg) /\ ~ModelFault(cfg) /\ ~EngineFault(cfg)) =>
                f.pc # "failed"
        /\ f.pc = "failed" =>
                /\ f.error.tag = "Error"
                /\ f.option = None
                /\ f.result = None
                /\ f.failed_at = "environment" =>
                        (f.market_env = None /\ f.model = None /\ f.engine = None)
                /\ f.failed_at = "model" =>
                        (f.market_env # None /\ f.model = None /\ f.engine = None)
                /\ f.failed_at = "engine" =>
                        (f.market_env # None /\ f.model # None /\ f.engine = None)
        /\ f.pc \in built =>
                (f.market_env # None /\ f.model # None /\ f.engine # None
                    /\ f.option # None)
        /\ f.pc = "price_failed" => (f.result = None /\ f.error.tag = "Error")
        /\ InstrumentFault(cfg) =>
                /\ f.pc # "priced"
                /\ f.pc = "price_failed" =>
                        f.error \in {UnknownTypeError, UnknownStyleError}
        /\ (f.pc = "price_failed"
                /\ f.error \in {UnknownTypeError, UnknownStyleError}) =>
                InstrumentFault(cfg)

\* C18: a request with an unknown calendar, day count, volatility regime or
\* surface type fails while the environment is built, else one with an
\* unknown model kind while the model is created, else one with an unknown
\* engine kind or an unsupported pairing while the engine is created - each
\* before an OptionInstrument exists, so that price() cannot be invoked; an
\* unknown option type or style never makes the construction fail and is
\* raised by price() only.  A failed construction is final, and a request
\* whose price() failed with an instrument-definition error never yields a
\* price dictionary.
C18_ErrorOrder ==
    [][/\ StageOrder(iface')
       /\ iface.pc # "failed"
       /\ (iface.pc = "price_failed" /\ InstrumentFault(iface.cfg)) =>
                (iface'.pc = "price_failed" /\ iface'.result = None)]_vars

\* a request with a valid stack and an unknown option style was constructed
\* and then refused by price()
C18_Witness ==
    /\ iface.pc = "price_failed"
    /\ iface.cfg.option_instrument.style = "bermudan"
    /\ iface.cfg.option_instrument.option_type = "call"
    /\ iface.error = UnknownStyleError
    /\ iface.option # None

\* d is a Friday: serial numbers of Fridays are 6 modulo 7
IsFridaySerial(d) == d % 7 = 6

\* C21: the unadjusted first weekly anchor d + ((6 - weekday) mod 7) is the
\* earliest Friday on or after the pricing date d: its offset from d is never
\* negative, is 0 exactly when d is a Friday and lies in 1..6 otherwise.
C21_FirstAnchor ==
    g_pc = "w_anchor" =>
        LET offset == g_frame.friday - g_date
        IN  /\ offset >= 0
            /\ IsFridaySerial(g_frame.friday)
            /\ \A x \in g_date .. (g_frame.friday - 1) : ~IsFridaySerial(x)
            /\ offset = 0 <=> IsFridaySerial(g_date)
            /\ ~IsFridaySerial(g_date) => offset \in 1..6

\* the anchor of a Saturday pricing date: the Friday six days later
C21_Witness ==
    /\ g_pc = "w_anchor"
    /\ g_date % 7 = 0
    /\ g_frame.friday = g_date + 6

\* number of the calendar month of d, counted from January of year 0
MonthIndex(d) == 12 * year(d) + (month(d) - 1)

\* C22: iteration i of the monthly loop (i = 0, 1, ... in turn) starts on the
\* 15th of the calendar month i months after the pricing month, the year
\* advancing after December, and the date at which its while loop stops,
\* before the holiday roll, is the third Friday of that month: the one Friday
\* whose day of the month is in 15..21.
C22_ThirdFriday ==
    [][/\ (g_pc = "m_for" /\ g_pc' = "m_while") =>
            /\ MonthIndex(g_frame'.friday) = MonthIndex(g_date) + g_frame'.i
            /\ dayOfMonth(g_frame'.friday) = 15
            /\ g_frame'.i = Len(g_expiries)
       /\ (g_pc = "m_while" /\ g_pc' = "m_for") =>
            LET tf == g_frame.friday
                first == tf - dayOfMonth(tf) + 1
            IN  /\ MonthIndex(tf) = MonthIndex(g_date) + g_frame.i
                /\ IsFridaySerial(tf)
                /\ dayOfMonth(tf) \in 15..21
                /\ Cardinality({x \in first .. (tf - 1) : IsFridaySerial(x)}) = 2
                /\ g_frame'.i = g_frame.i + 1]_vars

\* from a pricing date in December 2023 the loop reached the third Friday of
\* January 2024, 2024-01-19
C22_Witness ==
    /\ g_pc = "m_while"
    /\ month(g_date) = 12
    /\ g_frame.i = 1
    /\ g_frame.friday = MakeDate(19, 1, 2024)
    /\ year(g_frame.friday) = year(g_date) + 1

\* the earliest Friday on or after d
FridayOnOrAfter(d) == CHOOSE f \in d .. (d + 6) : IsFridaySerial(f)

\* the latest business day of cal on or before d
RollPreceding(cal, d) == IF IsOpen(cal, d) THEN d ELSE PriorBusinessDay(cal, d)

\* no Friday from the anchor a to the count-th one after it is rolled back
\* by 7 days or more
RollsStayInWeek(cal, a, count) ==
    \A k \in 0..count : \E b \in (a + 7 * k - 6) .. (a + 7 * k) : IsOpen(cal, b)

\* C23: provided no roll moves a Friday back by 7 days or more, the k-th
\* weekly expiry emitted so far (k = 0 .. count) is the Friday 7 k days after
\* the first anchor, rolled to the preceding business day, and the weekly
\* list is strictly increasing.
C23_WeeklyLadder ==
    (call.op = "_get_weekly_expiries" /\ g_pc \in {"w_for", "w_while", "returned"}) =>
        LET a == FridayOnOrAfter(g_date)
        IN  RollsStayInWeek(g_cal, a, call.args[1]) =>
                /\ \A k \in 0 .. (Len(g_weeklies) - 1) :
                        g_weeklies[k + 1] = RollPreceding(g_cal, a + 7 * k)
                /\ IsStrictlyAscending(g_weeklies)
                /\ g_pc = "returned" => Len(g_weeklies) = call.args[1] + 1

\* a returned weekly list in which an expiry was rolled back to the Thursday
\* and the next one is the Friday of the following week
C23_Witness ==
    /\ call.op = "_get_weekly_expiries"
    /\ g_pc = "returned"
    /\ RollsStayInWeek(g_cal, FridayOnOrAfter(g_date), call.args[1])
    /\ \E k \in 1 .. (Len(g_weeklies) - 1) :
            /\ g_weeklies[k] % 7 = 5
            /\ g_weeklies[k + 1] = g_weeklies[k] + 8

\* C28: a while loop of the list builders takes at most 6 single-day steps
\* for a date, and every call of _get_weekly_expiries and of
\* _get_third_friday_expiries comes to its end, whatever the pricing date
\* and the count.
C28_LoopsTerminate ==
    /\ [](g_frame.steps <= 6)
    /\ (g_pc \in {"w_anchor", "w_for", "w_while", "m_for", "m_while", "looped", "dropped"})
            ~> (g_pc \in {"returned", "raised"})

\* a third Friday reached after 6 single-day steps: the 15th was a Saturday
C28_Witness ==
    /\ g_pc = "m_while"
    /\ g_frame.steps = 6
    /\ IsFridaySerial(g_frame.friday)

\* the option type for which the implementation builds a payoff
TypeAccepted(opt) ==
    \/ opt.option_type = "call"
    \/ opt.option_type = "put" /\ opt.impl = "pricing_engine"

StyleAccepted(opt) == opt.style \in {"european", "american"}

\* C24: price() checks the option type, then the exercise style, then the
\* presence of an engine, and only then asks the engine for a value: the
\* first failing check determines the error (an unknown option type fails
\* with the unknown-option-type error whatever the style and the engine),
\* the later checks are not reached, and the engine is asked only when all
\* three checks passed.
C24_CheckOrder ==
    call.op = "price" =>
        /\ ~TypeAccepted(option) =>
                /\ call.status = "raised"
                /\ call.payoff = None /\ call.exercise = None
                /\ call.value \notin {UnknownStyleError, NoEngineError}
                /\ option.option_type \notin {"call", "put"} =>
                        call.value = UnknownTypeError
        /\ (TypeAccepted(option) /\ ~StyleAccepted(option)) =>
                /\ call.status = "raised"
                /\ call.value = UnknownStyleError
                /\ call.payoff # None /\ call.exercise = None
        /\ (TypeAccepted(option) /\ StyleAccepted(option) /\ option.engine = None) =>
                /\ call.status = "raised"
                /\ call.value = NoEngineError
                /\ call.payoff # None /\ call.exercise # None
        /\ call.npv_asked <=>
                (TypeAccepted(option) /\ StyleAccepted(option) /\ option.engine # None)

\* an instrument of unknown type and unknown style without an engine was
\* refused with the unknown-option-type error
C24_Witness ==
    /\ call.op = "price"
    /\ option.option_type = "straddle"
    /\ option.style = "bermudan"
    /\ option.engine = None
    /\ call.value = UnknownTypeError
    /\ ~call.npv_asked

\* every attribute of an environment holds a built component
FullyBuilt(env) ==
    /\ env.tag = "MarketEnvironment"
    /\ env.calendar.tag = "Calendar"
    /\ env.day_count.tag = "DayCounter"
    /\ env.underlying.tag = "Underlying"
    /\ env.vol_surface.tag = "BlackConstantVol"
    /\ env.risk_free_curve.tag = "FlatForward"
    /\ env.dividend_curve.tag = "FlatForward"

\* C25: a from_config call that fails - as every call does whose
\* configuration names an unknown calendar, day count or volatility regime
\* or a surface of an unsupported type - returns no environment and leaves
\* the process-wide valuation date as it was; the valuation date is written
\* only by a call that built every component and returns the environment.
C25_FailedConstruction ==
    [][call'.op = "from_config" =>
        /\ EnvironmentFault(call'.args[1]) => call'.status = "raised"
        /\ call'.status = "raised" =>
                /\ call'.value.tag = "Error"
                /\ evaluationDate' = evaluationDate
                /\ envs' = envs
        /\ (evaluationDate' # evaluationDate \/ envs' # envs) =>
                /\ call'.status = "returned"
                /\ FullyBuilt(call'.value)
                /\ envs' = Append(envs, call'.value)
                /\ evaluationDate' = call'.value.pricing_date]_vars

\* after an environment dated 2023-12-15 was built, a from_config call for
\* 2024-01-02 with an unknown volatility regime failed and the valuation
\* date is still 2023-12-15
C25_Witness ==
    /\ call.op = "from_config"
    /\ call.status = "raised"
    /\ call.args[1].market_env.pricing_date = <<2024, 1, 2>>
    /\ call.args[1].market_env.volatility_regime = "crisis"
    /\ Len(envs) = 1
    /\ evaluationDate = MakeDate(15, 12, 2023)

\* C26: in a PricingInterface the curve built from the configured risk-free
\* rate is the risk-free curve of the environment, of the model and of the
\* stochastic process of the engine, and the curve built from the configured
\* dividend rate is their dividend curve, for the Black-Scholes and for the
\* Heston model alike.
C26_CurveRoles ==
    LET curves == iface.cfg.curves
    IN  /\ iface.market_env # None =>
                /\ iface.market_env.risk_free_curve.rate = curves.risk_free.rate
                /\ iface.market_env.dividend_curve.rate = curves.dividend.rate
        /\ iface.model # None =>
                /\ iface.model.risk_free_curve = iface.market_env.risk_free_curve
                /\ iface.model.dividend_curve = iface.market_env.dividend_curve
        /\ iface.engine # None =>
                /\ iface.engine.process.risk_free = iface.market_env.risk_free_curve
                /\ iface.engine.process.dividend = iface.market_env.dividend_curve
                /\ iface.engine.process.risk_free.rate = curves.risk_free.rate
                /\ iface.engine.process.dividend.rate = curves.dividend.rate

\* a Heston engine was built from a configuration whose two rates differ
C26_Witness ==
    /\ iface.engine # None
    /\ iface.model.tag = "HestonModel"
    /\ iface.cfg.curves.risk_free.rate # iface.cfg.curves.dividend.rate
    /\ iface.engine.process.risk_free.rate = iface.cfg.curves.risk_free.rate
    /\ iface.engine.process.dividend.rate = iface.cfg.curves.dividend.rate

\* C27: the binomial engine of a PricingInterface has 100 lattice steps
\* whatever pricer.steps the configuration holds, so that nothing in the
\* engine tells two configurations apart that differ in pricer.steps only;
\* create_engine itself gives the binomial engine the steps it is called with.
C27_StepsIgnored ==
    /\ (iface.engine # None /\ iface.engine.tag = "BinomialVanillaEngine") =>
            /\ iface.engine.steps = 100
            /\ iface.engine.process.tag = "BlackScholesMertonProcess"
            /\ iface.engine.process.spot = iface.market_env.underlying.spot
            /\ iface.engine.process.vol = iface.market_env.vol_surface
            /\ DOMAIN iface.engine = {"tag", "process", "steps"}
    /\ (call.op = "create_engine" /\ call.status = "returned"
            /\ call.value.tag = "BinomialVanillaEngine") =>
            call.value.steps = call.args[3]

\* an interface configured with 50 steps holds a binomial engine of 100
\* steps, and a direct create_engine call with 50 steps on its model
\* returned an engine of 50 steps
C27_Witness ==
    /\ iface.cfg.pricer.steps = 50
    /\ iface.engine # None
    /\ iface.engine.tag = "BinomialVanillaEngine"
    /\ iface.engine.steps = 100
    /\ call.op = "create_engine"
    /\ call.args[3] = 50
    /\ call.value.steps = 50

====
